---------------------------- MODULE Spec2Model ----------------------------
(***************************************************************************)
(* A model of review.py: the command-line pull-request reviewer.           *)
(*                                                                         *)
(* Text is modelled as a sequence of one-character strings, so that the    *)
(* string operations of the program (splitlines, startswith, re.match,     *)
(* int, lower, the substring test) are computed character by character.    *)
(***************************************************************************)
EXTENDS Integers, Sequences, FiniteSets, TLC

VARIABLES
    pc,           \* position of the script (the statement about to run)
    args,         \* the parsed arguments (line 27)
    token,        \* GITHUB_TOKEN as read from the environment (line 30)
    pr,           \* the pull request returned by repo.get_pull (line 37)
    llm,          \* whether the model gateway has been constructed (line 46)
    content,      \* the PR-level content sent to the model (lines 64-82)
    review_text,  \* the PR-level review (line 85)
    head_commit,  \* the commit object read before the loop (line 97)
    files,        \* the file list the comments loop iterates (line 98)
    idx,          \* position of the comments loop in files
    file_review,  \* the per-file review (line 103)
    diff,         \* the patch handed to get_file_line_from_diff (line 101)
    line_num,     \* its result (line 106)
    calls,        \* log of the external calls made, in order
    output,       \* what has been printed to standard output, in order
    posted        \* the review comments that exist on the pull request

vars == <<pc, args, token, pr, llm, content, review_text, head_commit, files,
          idx, file_review, diff, line_num, calls, output, posted>>

---------------------------------------------------------------------------
(* Bounds of the model.                                                    *)

\* the longest patch, in lines, that the locator is applied to
MaxLines == 4
\* the largest number of changed files of a pull request
MaxFiles == 3

---------------------------------------------------------------------------
(* Text.                                                                   *)

NL == "\n"
CR == "\r"

\* str.startswith
StartsWith(s, p) ==
    /\ Len(s) >= Len(p)
    /\ SubSeq(s, 1, Len(p)) = p

\* str.splitlines: the lines of s, split at \n, \r and \r\n, without the
\* line breaks and without an empty last line
RECURSIVE SplitFrom(_, _, _, _)
SplitFrom(s, i, cur, acc) ==
    IF i > Len(s)
    THEN IF cur = <<>> THEN acc ELSE Append(acc, cur)
    ELSE IF s[i] = NL
         THEN SplitFrom(s, i + 1, <<>>, Append(acc, cur))
         ELSE IF s[i] = CR
              THEN IF i < Len(s) /\ s[i + 1] = NL
                   THEN SplitFrom(s, i + 2, <<>>, Append(acc, cur))
                   ELSE SplitFrom(s, i + 1, <<>>, Append(acc, cur))
              ELSE SplitFrom(s, i + 1, Append(cur, s[i]), acc)

splitlines(s) == SplitFrom(s, 1, <<>>, <<>>)

\* "\n".join(ls)
RECURSIVE JoinLines(_)
JoinLines(ls) ==
    IF ls = <<>> THEN <<>>
    ELSE IF Len(ls) = 1 THEN ls[1]
         ELSE ls[1] \o <<NL>> \o JoinLines(Tail(ls))

Digits == {"0", "1", "2", "3", "4", "5", "6", "7", "8", "9"}

DigitVal(c) ==
    CASE c = "0" -> 0 [] c = "1" -> 1 [] c = "2" -> 2 [] c = "3" -> 3
      [] c = "4" -> 4 [] c = "5" -> 5 [] c = "6" -> 6 [] c = "7" -> 7
      [] c = "8" -> 8 [] c = "9" -> 9

\* int() of a run of digits
RECURSIVE ToInt(_)
ToInt(ds) ==
    IF ds = <<>> THEN 0
    ELSE 10 * ToInt(SubSeq(ds, 1, Len(ds) - 1)) + DigitVal(ds[Len(ds)])

\* the length of the longest run of digits of s that starts at position i
\* (what a greedy \d+ consumes there)
RECURSIVE DigitRun(_, _)
DigitRun(s, i) ==
    IF i <= Len(s) /\ s[i] \in Digits THEN 1 + DigitRun(s, i + 1) ELSE 0

\* whether the literal p stands in s at position i
LitAt(s, i, p) ==
    /\ i + Len(p) - 1 <= Len(s)
    /\ SubSeq(s, i, i + Len(p) - 1) = p

---------------------------------------------------------------------------
(* get_file_line_from_diff (lines 49-59).                                  *)

\* re.match(r"@@ -(\d+),(\d+) \+(\d+),(\d+) @@", line): anchored at the start
\* of the line only; every \d+ is followed by a literal that is no digit, so
\* the greedy match never backtracks.  The result is [ok, g1, g2, g3, g4].
NoMatch == [ok |-> FALSE, g1 |-> 0, g2 |-> 0, g3 |-> 0, g4 |-> 0]

HunkMatch(line) ==
    LET p1 == 5
        n1 == DigitRun(line, p1)
        p2 == p1 + n1 + 1
        n2 == DigitRun(line, p2)
        p3 == p2 + n2 + 2
        n3 == DigitRun(line, p3)
        p4 == p3 + n3 + 1
        n4 == DigitRun(line, p4)
    IN  IF  /\ LitAt(line, 1, <<"@", "@", " ", "-">>)
            /\ n1 >= 1
            /\ LitAt(line, p1 + n1, <<",">>)
            /\ n2 >= 1
            /\ LitAt(line, p2 + n2, <<" ", "+">>)
            /\ n3 >= 1
            /\ LitAt(line, p3 + n3, <<",">>)
            /\ n4 >= 1
            /\ LitAt(line, p4 + n4, <<" ", "@", "@">>)
        THEN [ok |-> TRUE,
              g1 |-> ToInt(SubSeq(line, p1, p1 + n1 - 1)),
              g2 |-> ToInt(SubSeq(line, p2, p2 + n2 - 1)),
              g3 |-> ToInt(SubSeq(line, p3, p3 + n3 - 1)),
              g4 |-> ToInt(SubSeq(line, p4, p4 + n4 - 1))]
        ELSE NoMatch

\* line 57 with "++" in place of "+++": an added line whose text starts
\* with "+" is taken for a file header
IsAddedLinePlusPlus(diff_line) ==
    StartsWith(diff_line, <<"+">>) /\ ~StartsWith(diff_line, <<"+", "+">>)

\* line 57: diff_line.startswith("+") and not diff_line.startswith("+++")
IsAddedLine(diff_line) ==
    StartsWith(diff_line, <<"+">>) /\ ~StartsWith(diff_line, <<"+", "+", "+">>)

\* lines 56-58: the inner loop over lines[i+1:], j counted from 1; 0 when the
\* loop ends without returning
RECURSIVE InnerScan(_, _, _)
InnerScan(lines, i, j) ==
    IF i + j > Len(lines) THEN 0
    ELSE IF IsAddedLine(lines[i + j]) THEN j
         ELSE InnerScan(lines, i, j + 1)

\* lines 51-59: the outer loop from line i on
RECURSIVE OuterScan(_, _)
OuterScan(lines, i) ==
    IF i > Len(lines) THEN 1
    ELSE IF StartsWith(lines[i], <<"@", "@">>) /\ HunkMatch(lines[i]).ok
         THEN LET new_start == HunkMatch(lines[i]).g3
                  j == InnerScan(lines, i, 1)
              IN  IF j > 0 THEN new_start + j - 1
                  ELSE OuterScan(lines, i + 1)
         ELSE OuterScan(lines, i + 1)

get_file_line_from_diff(d) == OuterScan(splitlines(d), 1)

---------------------------------------------------------------------------
(* The patches the locator is checked on: every sequence of at most        *)
(* MaxLines lines of DiffLines, joined by line breaks.                     *)

HeaderA  == <<"@", "@", " ", "-", "1", ",", "2", " ", "+", "1", ",", "2", " ", "@", "@">>
HeaderB  == <<"@", "@", " ", "-", "1", "0", ",", "5", " ", "+", "2", "0", ",", "6",
              " ", "@", "@", " ", "f">>
HeaderShort == <<"@", "@", " ", "-", "1", " ", "+", "1", " ", "@", "@">>
ContextLine == <<" ", "a">>
RemovedLine == <<"-", "a">>
AddedLine   == <<"+", "a">>
AddedPlus   == <<"+", "+", "a">>
AddedPlusPlus == <<"+", "+", "+", "a">>

DiffLines == {HeaderA, HeaderB, HeaderShort, ContextLine, RemovedLine,
              AddedLine, AddedPlus, AddedPlusPlus}

RECURSIVE SeqsUpTo(_, _)
SeqsUpTo(S, n) ==
    IF n = 0 THEN {<<>>}
    ELSE LET shorter == SeqsUpTo(S, n - 1)
         IN  shorter \cup {Append(s, x) : s \in shorter, x \in S}

LineLists == SeqsUpTo(DiffLines, MaxLines)


Patches == {JoinLines(ls) : ls \in LineLists}

---------------------------------------------------------------------------
(* Values of the run.                                                      *)

\* Python's None, kept apart from every text
None == <<"None">>

\* the truth value Python gives a text or None
Truthy(s) == s # None /\ s # <<>>

Upper == <<"A", "B", "C", "D", "E", "F", "G", "H", "I", "J", "K", "L", "M",
           "N", "O", "P", "Q", "R", "S", "T", "U", "V", "W", "X", "Y", "Z">>
Lower == <<"a", "b", "c", "d", "e", "f", "g", "h", "i", "j", "k", "l", "m",
           "n", "o", "p", "q", "r", "s", "t", "u", "v", "w", "x", "y", "z">>

LowerChar(c) ==
    IF \E k \in DOMAIN Upper : Upper[k] = c
    THEN Lower[CHOOSE k \in DOMAIN Upper : Upper[k] = c]
    ELSE c

\* str.lower
lower(s) == [i \in 1..Len(s) |-> LowerChar(s[i])]

\* sub in s, for a text sub that is not empty
Contains(s, sub) ==
    \E i \in 1..(Len(s) - Len(sub) + 1) : SubSeq(s, i, i + Len(sub) - 1) = sub

NoFeedback == <<"n", "o", " ", "f", "e", "e", "d", "b", "a", "c", "k">>

\* line 105 without .lower(): the test sees only the lower-case spelling
WantsCommentCaseSensitive(review) ==
    Truthy(review) /\ ~Contains(review, NoFeedback)

\* line 105: file_review and "no feedback" not in file_review.lower()
WantsComment(review) ==
    Truthy(review) /\ ~Contains(lower(review), NoFeedback)

\* what the model gateway may return
RespEmpty == <<>>
RespNoFeedback == <<"O", "K", ":", " ", "N", "o", " ", "F", "e", "e", "d", "b", "a", "c", "k", ".">>
RespIssue == <<"b", "u", "g">>
Responses == {RespEmpty, RespNoFeedback, RespIssue}

\* the values of GITHUB_TOKEN: unset, empty, set
Tokens == {None, <<>>, <<"t">>}

Modes == {"general", "issues", "comments"}

\* the patch of a changed file: absent, empty, or a diff
PatchA == JoinLines(<<HeaderB, ContextLine, AddedLine>>)
FilePatches == {None, <<>>, PatchA}

FileNames == <<"a.py", "b.py", "c.py", "d.py", "e.py">>

FileLists ==
    UNION {[1..n -> FilePatches] : n \in 0..MaxFiles}

MkFiles(ps) == [i \in 1..Len(ps) |-> [filename |-> FileNames[i], patch |-> ps[i]]]

\* the pull requests repo.get_pull may return
PRs ==
    {[title |-> t, body |-> b, state |-> st, head_sha |-> "sha", files |-> MkFiles(ps)] :
        t \in {None, <<"T">>}, b \in {None, <<"D">>}, st \in {"open", "closed"},
        ps \in FileLists}

NoArgs == [mode |-> "unset", full_context |-> FALSE]
NoPR == [title |-> None, body |-> None, state |-> "unset", head_sha |-> "unset", files |-> <<>>]
NoCommit == [sha |-> "unset", fetch |-> 0]
NoContent == [title |-> None, description |-> None, diffs |-> <<>>]

\* an entry of the call log: the call, the file of the comments loop it was
\* made for (0 outside the loop), how it ended, what it returned (for the
\* model) and the commit it was given (for a comment creation)
Call(name, i, res) == [call |-> name, file |-> i, result |-> res, ret |-> None, commit |-> None]
Returned(name, i, r) == [call |-> name, file |-> i, result |-> "ok", ret |-> r, commit |-> None]
Given(name, i, res, c) == [call |-> name, file |-> i, result |-> res, ret |-> None, commit |-> c]

\* how many calls of that name the log holds
Count(name) == Cardinality({k \in DOMAIN calls : calls[k].call = name})

---------------------------------------------------------------------------
(* The script, statement by statement.  Every call of a collaborator is    *)
(* one step: it blocks until it has returned or raised.  An exception that *)
(* nothing catches ends the run with pc = "aborted".                       *)

Init ==
    /\ pc = "parse_args"
    /\ args = NoArgs
    /\ token = None
    /\ pr = NoPR
    /\ llm = FALSE
    /\ content = NoContent
    /\ review_text = None
    /\ head_commit = NoCommit
    /\ files = <<>>
    /\ idx = 0
    /\ file_review = None
    /\ diff = None
    /\ line_num = 0
    /\ calls = <<>>
    /\ output = <<>>
    /\ posted = <<>>

\* line 27: parser.parse_args(); a bad argument exits with a usage error,
\* --version prints the version and exits
ParseArgs ==
    /\ pc = "parse_args"
    /\ \/ /\ pc' = "exit_usage"
          /\ UNCHANGED <<args, output>>
       \/ /\ pc' = "exit_version"
          /\ output' = Append(output, [kind |-> "version"])
          /\ UNCHANGED args
       \/ /\ \E m \in Modes, fc \in BOOLEAN :
                args' = [mode |-> m, full_context |-> fc]
          /\ pc' = "getenv"
          /\ UNCHANGED output
    /\ UNCHANGED <<token, pr, llm, content, review_text, head_commit, files,
                   idx, file_review, diff, line_num, calls, posted>>

\* line 31 with "is None" in place of "not": an empty token passes
TokenMissingIsNone(t) == t = None

\* line 31: not GITHUB_TOKEN
TokenMissing(t) == ~Truthy(t)

\* lines 30-32: read GITHUB_TOKEN, raise ValueError when it is missing
GetToken ==
    /\ pc = "getenv"
    /\ \E t \in Tokens :
          /\ token' = t
          /\ calls' = Append(calls, Call("getenv", 0, IF TokenMissing(t) THEN "raise" ELSE "ok"))
          /\ pc' = IF TokenMissing(t) THEN "aborted" ELSE "get_repo"
    /\ UNCHANGED <<args, pr, llm, content, review_text, head_commit, files,
                   idx, file_review, diff, line_num, output, posted>>

\* lines 35-36: Github(GITHUB_TOKEN), g.get_repo(args.repository)
GetRepo ==
    /\ pc = "get_repo"
    /\ \/ /\ calls' = Append(calls, Call("get_repo", 0, "ok"))
          /\ pc' = "get_pull"
       \/ /\ calls' = Append(calls, Call("get_repo", 0, "raise"))
          /\ pc' = "aborted"
    /\ UNCHANGED <<args, token, pr, llm, content, review_text, head_commit,
                   files, idx, file_review, diff, line_num, output, posted>>

\* line 37: repo.get_pull(args.pr_number)
GetPull ==
    /\ pc = "get_pull"
    /\ \/ /\ \E p \in PRs : pr' = p
          /\ calls' = Append(calls, Call("get_pull", 0, "ok"))
          /\ pc' = "llm_init"
       \/ /\ calls' = Append(calls, Call("get_pull", 0, "raise"))
          /\ pc' = "aborted"
          /\ UNCHANGED pr
    /\ UNCHANGED <<args, token, llm, content, review_text, head_commit,
                   files, idx, file_review, diff, line_num, output, posted>>

\* lines 40-46: llm_map[args.llm](debug=args.debug, deep=args.deep)
ConstructLLM ==
    /\ pc = "llm_init"
    /\ \/ /\ llm' = TRUE
          /\ calls' = Append(calls, Call("llm_init", 0, "ok"))
          /\ pc' = "list_files"
       \/ /\ calls' = Append(calls, Call("llm_init", 0, "raise"))
          /\ pc' = "aborted"
          /\ UNCHANGED llm
    /\ UNCHANGED <<args, token, pr, content, review_text, head_commit,
                   files, idx, file_review, diff, line_num, output, posted>>

\* lines 62-64: the title and the description, with their defaults
BaseContent ==
    [title |-> IF Truthy(pr.title) THEN pr.title ELSE <<"No title provided">>,
     description |-> IF Truthy(pr.body) THEN pr.body ELSE <<"No description provided">>,
     diffs |-> <<>>]

\* line 75: the patch of every file that has one, in list order
RECURSIVE DiffsOnly(_)
DiffsOnly(fs) ==
    IF fs = <<>> THEN <<>>
    ELSE IF Truthy(fs[1].patch)
         THEN <<[patch |-> fs[1].patch]>> \o DiffsOnly(Tail(fs))
         ELSE DiffsOnly(Tail(fs))

\* lines 62-69 and 74-82: pr.get_files() for the PR-level content; without
\* --full-context the content is complete after it
ListFiles ==
    /\ pc = "list_files"
    /\ \/ /\ calls' = Append(calls, Call("get_files", 0, "ok"))
          /\ IF args.full_context
             THEN /\ content' = BaseContent
                  /\ idx' = 1
                  /\ pc' = "fetch_content"
             ELSE /\ content' = [BaseContent EXCEPT !.diffs = DiffsOnly(pr.files)]
                  /\ idx' = 0
                  /\ pc' = "pr_review"
       \/ /\ calls' = Append(calls, Call("get_files", 0, "raise"))
          /\ pc' = "aborted"
          /\ UNCHANGED <<content, idx>>
    /\ UNCHANGED <<args, token, pr, llm, review_text, head_commit, files,
                   file_review, diff, line_num, output, posted>>

\* lines 69-73: with --full-context, repo.get_contents for every file that
\* has a patch
FetchContent ==
    /\ pc = "fetch_content"
    /\ \/ /\ idx > Len(pr.files)
          /\ idx' = 0
          /\ pc' = "pr_review"
          /\ UNCHANGED <<content, calls>>
       \/ /\ idx <= Len(pr.files)
          /\ ~Truthy(pr.files[idx].patch)
          /\ idx' = idx + 1
          /\ UNCHANGED <<content, calls, pc>>
       \/ /\ idx <= Len(pr.files)
          /\ Truthy(pr.files[idx].patch)
          /\ calls' = Append(calls, Call("get_contents", 0, "ok"))
          /\ content' = [content EXCEPT !.diffs =
                            Append(@, [filename |-> pr.files[idx].filename,
                                       file_content |-> <<"content", pr.files[idx].filename>>,
                                       patch |-> pr.files[idx].patch])]
          /\ idx' = idx + 1
          /\ UNCHANGED pc
       \/ /\ idx <= Len(pr.files)
          /\ Truthy(pr.files[idx].patch)
          /\ calls' = Append(calls, Call("get_contents", 0, "raise"))
          /\ pc' = "aborted"
          /\ UNCHANGED <<content, idx>>
    /\ UNCHANGED <<args, token, pr, llm, review_text, head_commit, files,
                   file_review, diff, line_num, output, posted>>

\* line 85: llm.generate_review(content, args.mode)
GenerateReview ==
    /\ pc = "pr_review"
    /\ \/ /\ \E r \in Responses : review_text' = r
          /\ calls' = Append(calls, Returned("generate_review", 0, review_text'))
          /\ pc' = "print_review"
       \/ /\ calls' = Append(calls, Call("generate_review", 0, "raise"))
          /\ pc' = "aborted"
          /\ UNCHANGED review_text
    /\ UNCHANGED <<args, token, pr, llm, content, head_commit, files, idx,
                   file_review, diff, line_num, output, posted>>

\* line 94 with the test of line 81: issues mode posts comments too
PostsCommentsIssues(mode) == mode \in {"issues", "comments"}

\* line 94: elif args.mode == "comments"
PostsComments(mode) == mode = "comments"

\* line 96 left out: the loop runs whatever the state of the pull request
PrOpenAny(p) == TRUE

\* line 96: pr.state == "open"
PrOpen(p) == p.state = "open"

Block(prefix, text) == [kind |-> prefix, text |-> text]
ClosedNotice == [kind |-> "Comments mode: PR is closed, no comments posted."]

\* lines 88-96 and 119-120: print the review under the prefix of the mode;
\* in comments mode go on to the files of an open pull request, or print
\* the notice
PrintReview ==
    /\ pc = "print_review"
    /\ \/ /\ args.mode = "general"
          /\ output' = Append(output, Block("General PR Review:", review_text))
          /\ pc' = "done"
       \/ /\ args.mode = "issues"
          /\ output' = Append(output, Block("Code Issues:", review_text))
          /\ pc' = "done"
       \/ /\ PostsComments(args.mode)
          /\ PrOpen(pr)
          /\ output' = Append(output, Block("Code Issues:", review_text))
          /\ pc' = "get_commit"
       \/ /\ PostsComments(args.mode)
          /\ ~PrOpen(pr)
          /\ output' = Append(Append(output, Block("Code Issues:", review_text)), ClosedNotice)
          /\ pc' = "done"
    /\ UNCHANGED <<args, token, pr, llm, content, review_text, head_commit,
                   files, idx, file_review, diff, line_num, calls, posted>>

\* line 97: repo.get_commit(pr.head.sha); fetch numbers the commit objects
\* in the order they are read
GetCommit ==
    /\ pc = "get_commit"
    /\ \/ /\ head_commit' = [sha |-> pr.head_sha, fetch |-> Count("get_commit") + 1]
          /\ calls' = Append(calls, Call("get_commit", 0, "ok"))
          /\ pc' = "loop_files"
       \/ /\ calls' = Append(calls, Call("get_commit", 0, "raise"))
          /\ pc' = "aborted"
          /\ UNCHANGED head_commit
    /\ UNCHANGED <<args, token, pr, llm, content, review_text, files, idx,
                   file_review, diff, line_num, output, posted>>

\* line 98: pr.get_files() for the loop
ListFilesAgain ==
    /\ pc = "loop_files"
    /\ \/ /\ files' = pr.files
          /\ idx' = 1
          /\ calls' = Append(calls, Call("get_files", 0, "ok"))
          /\ pc' = "next_file"
       \/ /\ calls' = Append(calls, Call("get_files", 0, "raise"))
          /\ pc' = "aborted"
          /\ UNCHANGED <<files, idx>>
    /\ UNCHANGED <<args, token, pr, llm, content, review_text, head_commit,
                   file_review, diff, line_num, output, posted>>

\* lines 98-102: the next file of the loop; a file without a patch is
\* passed over; with --full-context its content is fetched first
NextFile ==
    /\ pc = "next_file"
    /\ \/ /\ idx > Len(files)
          /\ pc' = "done"
          /\ UNCHANGED <<idx, diff, calls>>
       \/ /\ idx <= Len(files)
          /\ ~Truthy(files[idx].patch)
          /\ idx' = idx + 1
          /\ UNCHANGED <<pc, diff, calls>>
       \/ /\ idx <= Len(files)
          /\ Truthy(files[idx].patch)
          /\ ~args.full_context
          /\ diff' = files[idx].patch
          /\ pc' = "file_review"
          /\ UNCHANGED <<idx, calls>>
       \/ /\ idx <= Len(files)
          /\ Truthy(files[idx].patch)
          /\ args.full_context
          /\ calls' = Append(calls, Call("get_contents", idx, "ok"))
          /\ diff' = files[idx].patch
          /\ pc' = "file_review"
          /\ UNCHANGED idx
       \/ /\ idx <= Len(files)
          /\ Truthy(files[idx].patch)
          /\ args.full_context
          /\ calls' = Append(calls, Call("get_contents", idx, "raise"))
          /\ pc' = "aborted"
          /\ UNCHANGED <<idx, diff>>
    /\ UNCHANGED <<args, token, pr, llm, content, review_text, head_commit,
                   files, file_review, line_num, output, posted>>

\* line 103 inside a try that passes the file over when the model fails
FileReviewRaisesCaught ==
    /\ calls' = Append(calls, Call("generate_review", idx, "raise"))
    /\ idx' = idx + 1
    /\ pc' = "next_file"
    /\ UNCHANGED <<file_review, line_num>>

\* line 103 raising: nothing catches it
FileReviewRaises ==
    /\ calls' = Append(calls, Call("generate_review", idx, "raise"))
    /\ pc' = "aborted"
    /\ UNCHANGED <<file_review, line_num, idx>>

\* lines 103-107: the model's review of the file; when it wants a comment,
\* the line to comment on
FileReview ==
    /\ pc = "file_review"
    /\ \/ \E r \in Responses :
             /\ file_review' = r
             /\ calls' = Append(calls, Returned("generate_review", idx, r))
             /\ IF WantsComment(r)
                THEN /\ line_num' = get_file_line_from_diff(diff)
                     /\ pc' = "post_comment"
                     /\ UNCHANGED idx
                ELSE /\ idx' = idx + 1
                     /\ pc' = "next_file"
                     /\ UNCHANGED line_num
       \/ FileReviewRaises
    /\ UNCHANGED <<args, token, pr, llm, content, review_text, head_commit,
                   files, diff, output, posted>>

\* line 111 with the commit read again for every file
ReviewCommitRefetched == [sha |-> pr.head_sha, fetch |-> head_commit.fetch + idx - 1]

\* line 111: commit=head_commit
ReviewCommit == head_commit

\* lines 117-118 re-raising after the error line: the run ends there
CommentFailedAborts ==
    /\ calls' = Append(calls, Given("create_review_comment", idx, "raise", ReviewCommit))
    /\ output' = Append(output, [kind |-> "Error posting comment on", file |-> files[idx].filename])
    /\ pc' = "aborted"
    /\ UNCHANGED <<posted, idx>>

\* lines 117-118: the call raised; print the error with the file's name and
\* go on with the next file
CommentFailed ==
    /\ calls' = Append(calls, Given("create_review_comment", idx, "raise", ReviewCommit))
    /\ output' = Append(output, [kind |-> "Error posting comment on", file |-> files[idx].filename])
    /\ idx' = idx + 1
    /\ pc' = "next_file"
    /\ UNCHANGED posted

\* lines 108-118: pr.create_review_comment
CreateReviewComment ==
    /\ pc = "post_comment"
    /\ \/ /\ calls' = Append(calls, Given("create_review_comment", idx, "ok", ReviewCommit))
          /\ posted' = Append(posted, [body |-> <<"AI Issue: ">> \o file_review,
                                       commit |-> ReviewCommit,
                                       path |-> files[idx].filename,
                                       line |-> line_num,
                                       side |-> "RIGHT"])
          /\ output' = Append(output, [kind |-> "Posted comment on",
                                       file |-> files[idx].filename,
                                       line |-> line_num,
                                       text |-> <<"AI Issue: ">> \o file_review])
          /\ idx' = idx + 1
          /\ pc' = "next_file"
       \/ CommentFailed
    /\ UNCHANGED <<args, token, pr, llm, content, review_text, head_commit,
                   files, file_review, diff, line_num>>

Next ==
    \/ ParseArgs
    \/ GetToken
    \/ GetRepo
    \/ GetPull
    \/ ConstructLLM
    \/ ListFiles
    \/ FetchContent
    \/ GenerateReview
    \/ PrintReview
    \/ GetCommit
    \/ ListFilesAgain
    \/ NextFile
    \/ FileReview
    \/ CreateReviewComment

Spec == Init /\ [][Next]_vars

---------------------------------------------------------------------------
(* The locator on its own: applied once to each patch of Patches.          *)

InitLocator ==
    /\ pc = "locate"
    /\ diff \in Patches
    /\ line_num = 0
    /\ args = NoArgs
    /\ token = None
    /\ pr = NoPR
    /\ llm = FALSE
    /\ content = NoContent
    /\ review_text = None
    /\ head_commit = NoCommit
    /\ files = <<>>
    /\ idx = 0
    /\ file_review = None
    /\ calls = <<>>
    /\ output = <<>>
    /\ posted = <<>>

\* line 106: line_num = get_file_line_from_diff(diff)
Locate ==
    /\ pc = "locate"
    /\ line_num' = get_file_line_from_diff(diff)
    /\ pc' = "located"
    /\ UNCHANGED <<args, token, pr, llm, content, review_text, head_commit,
                   files, idx, file_review, diff, calls, output, posted>>

SpecLocator == InitLocator /\ [][Locate]_vars

---------------------------------------------------------------------------
(* What the claims are stated with.                                        *)

Min(S) == CHOOSE x \in S : \A y \in S : x <= y
Last(q) == q[Len(q)]

\* the lines of a patch, read off its line feeds
Breaks(d) == {i \in 1..Len(d) : d[i] = NL}
NthBreak(d, k) ==
    IF k = 0 THEN 0
    ELSE IF k > Cardinality(Breaks(d)) THEN Len(d) + 1
         ELSE CHOOSE i \in Breaks(d) : Cardinality({j \in Breaks(d) : j < i}) = k - 1
PatchLines(d) ==
    [k \in 1..(Cardinality(Breaks(d)) + 1) |->
        SubSeq(d, NthBreak(d, k - 1) + 1, NthBreak(d, k) - 1)]

\* the lines that match the header form, and the lines that start with "+"
\* and not with "+++"
HeaderIdx(ls) == {i \in DOMAIN ls : HunkMatch(ls[i]).ok}
PlusIdx(ls) ==
    {i \in DOMAIN ls : /\ Len(ls[i]) >= 1
                       /\ ls[i][1] = "+"
                       /\ ~(Len(ls[i]) >= 3 /\ ls[i][2] = "+" /\ ls[i][3] = "+")}

\* the reference of C9
RefLineNumber(d) ==
    LET ls == PatchLines(d)
    IN  IF HeaderIdx(ls) = {} THEN 1
        ELSE LET h == Min(HeaderIdx(ls))
                 after == {i \in PlusIdx(ls) : i > h}
             IN  IF after = {} THEN 1
                 ELSE HunkMatch(ls[h]).g3 + (Min(after) - h) - 1

\* a well-formed unified diff: hunks only, each a header of the form
\* @@ -a,b +c,d @@ followed by context, removed and added lines, b old lines
\* (context and removed) and d new lines (context and added)
FirstChar(l) == IF l = <<>> THEN "" ELSE l[1]
HunkEnd(ls, h) ==
    IF \E i \in HeaderIdx(ls) : i > h
    THEN Min({i \in HeaderIdx(ls) : i > h}) - 1
    ELSE Len(ls)
WellFormed(ls) ==
    /\ Len(ls) >= 1
    /\ 1 \in HeaderIdx(ls)
    /\ \A i \in DOMAIN ls : i \in HeaderIdx(ls) \/ FirstChar(ls[i]) \in {" ", "-", "+"}
    /\ \A h \in HeaderIdx(ls) :
          LET body == (h + 1)..HunkEnd(ls, h)
          IN  /\ Cardinality({i \in body : FirstChar(ls[i]) \in {" ", "-"}}) = HunkMatch(ls[h]).g2
              /\ Cardinality({i \in body : FirstChar(ls[i]) \in {" ", "+"}}) = HunkMatch(ls[h]).g4

\* the added lines of a well-formed diff, and the number the first of them
\* has in the new file
AddedIdx(ls) == {i \in DOMAIN ls : i \notin HeaderIdx(ls) /\ FirstChar(ls[i]) = "+"}
NewFileLine(ls) ==
    LET a == Min(AddedIdx(ls))
        h == CHOOSE i \in HeaderIdx(ls) : i < a /\ HunkEnd(ls, i) >= a
    IN  HunkMatch(ls[h]).g3
          + Cardinality({i \in (h + 1)..(a - 1) : FirstChar(ls[i]) \in {" ", "+"}})

\* C1: for a well-formed diff with an added line, the locator returns the
\* number that the first added line has in the new file.
C1_FirstAddedLineInNewFile ==
    (/\ pc = "located"
     /\ WellFormed(PatchLines(diff))
     /\ AddedIdx(PatchLines(diff)) # {})
        => line_num = NewFileLine(PatchLines(diff))

\* the first hunk: the lines between the first header and the next line
\* that starts with "@@"
FirstHunkBody(ls) ==
    LET h == Min(HeaderIdx(ls))
        nxt == {i \in DOMAIN ls : i > h /\ StartsWith(ls[i], <<"@", "@">>)}
    IN  (h + 1)..(IF nxt = {} THEN Len(ls) ELSE Min(nxt) - 1)

\* C5: when the first hunk has no line that starts with "+", the locator
\* returns 1, whatever hunks follow.
C5_NoAddedInFirstHunkGivesOne ==
    (/\ pc = "located"
     /\ HeaderIdx(PatchLines(diff)) # {}
     /\ \A i \in FirstHunkBody(PatchLines(diff)) : FirstChar(PatchLines(diff)[i]) # "+")
        => line_num = 1

\* C9: the locator equals the reference: the first line of the header form
\* gives c, the first line after it that starts with "+" and not with "+++"
\* gives the offset k, the result is c + k - 1, and 1 when either is
\* missing; the result is an integer.
C9_LocatorEqualsReference ==
    pc = "located" => (line_num \in Int /\ line_num = RefLineNumber(diff))

\* C9 happens: a header that does not match is skipped, a "+++" line is
\* skipped, and the added line after it is found at offset 2 of c = 20
C9_Witness ==
    /\ pc = "located"
    /\ diff = JoinLines(<<HeaderShort, HeaderB, AddedPlusPlus, AddedPlus>>)
    /\ line_num = 21

---------------------------------------------------------------------------
(* The run.                                                                *)

CommentsOnOpen == args.mode = "comments" /\ pr.state = "open"

\* the entries of the log for file i of the comments loop
ModelCalls(i) == {k \in DOMAIN calls : calls[k].call = "generate_review" /\ calls[k].file = i}
CommentCalls(i) == {k \in DOMAIN calls : calls[k].call = "create_review_comment" /\ calls[k].file = i}
LoopCalls == {k \in DOMAIN calls : calls[k].file > 0}

\* a response that asks for a comment: not empty, and "no feedback" stands
\* nowhere in it in any letter case
SaysNoFeedbackAt(r, i) ==
    /\ i + Len(NoFeedback) - 1 <= Len(r)
    /\ \A j \in 1..Len(NoFeedback) : LowerChar(r[i + j - 1]) = NoFeedback[j]
AsksForComment(r) ==
    /\ r # None
    /\ Len(r) > 0
    /\ ~\E i \in 1..Len(r) : SaysNoFeedbackAt(r, i)

\* the run went through the whole loop
LoopDone == pc = "done" /\ CommentsOnOpen

\* C2: in comments mode on an open pull request the model is called once
\* for every file with a patch and for no other file, and a comment is
\* attempted, once, exactly for the files with a patch whose response is
\* not empty and does not say "no feedback" in any letter case.
C2_CommentIffQualifies ==
    CommentsOnOpen =>
        \A i \in DOMAIN pr.files :
            /\ Cardinality(ModelCalls(i)) <= 1
            /\ Cardinality(CommentCalls(i)) <= 1
            /\ ModelCalls(i) # {} => Truthy(pr.files[i].patch)
            /\ CommentCalls(i) # {} =>
                  /\ Truthy(pr.files[i].patch)
                  /\ \E k \in ModelCalls(i) :
                        calls[k].result = "ok" /\ AsksForComment(calls[k].ret)
            /\ LoopDone =>
                  /\ ModelCalls(i) # {} <=> Truthy(pr.files[i].patch)
                  /\ CommentCalls(i) # {} <=>
                        /\ Truthy(pr.files[i].patch)
                        /\ \E k \in ModelCalls(i) : AsksForComment(calls[k].ret)

\* C2 happens: a finished loop with a file that has no patch, a file whose
\* response says "No Feedback" and got no comment, and a file that got one
C2_Witness ==
    /\ LoopDone
    /\ \E i, j, n \in DOMAIN pr.files :
          /\ ~Truthy(pr.files[n].patch)
          /\ \E k \in ModelCalls(i) : calls[k].ret = RespNoFeedback
          /\ CommentCalls(i) = {}
          /\ CommentCalls(j) # {}

\* C3: in comments mode on a pull request that is not open there is no
\* comment creation, no fetch of the head commit and no per-file model call,
\* and the run ends with the notice printed after the Code Issues block.
C3_ClosedPostsNothing ==
    (args.mode = "comments" /\ pr.state \notin {"open", "unset"}) =>
        /\ Count("create_review_comment") = 0
        /\ Count("get_commit") = 0
        /\ LoopCalls = {}
        /\ posted = <<>>
        /\ pc = "done" => output = <<Block("Code Issues:", review_text), ClosedNotice>>

\* C3 happens: a finished comments-mode run on a closed pull request that
\* has a file with a patch
C3_Witness ==
    /\ pc = "done"
    /\ args.mode = "comments"
    /\ pr.state = "closed"
    /\ \E i \in DOMAIN pr.files : Truthy(pr.files[i].patch)

\* the error lines printed so far
ErrorLines == {k \in DOMAIN output : output[k].kind = "Error posting comment on"}
FailedComments == {k \in DOMAIN calls : calls[k].call = "create_review_comment"
                                         /\ calls[k].result = "raise"}

\* C4: a comment creation that raises prints an error line with the name
\* of the file and the run goes on: it never ends there, and every later
\* file with a patch gets its model call and, when the response asks for
\* one, its comment attempt, however many creations fail.
C4_FailedCommentContinues ==
    CommentsOnOpen =>
        /\ Cardinality(ErrorLines) = Cardinality(FailedComments)
        /\ \A k \in FailedComments :
              /\ \E e \in ErrorLines : output[e].file = pr.files[calls[k].file].filename
              /\ ~(pc = "aborted" /\ k = Len(calls))
              /\ pc # "post_comment" => idx > calls[k].file
              /\ LoopDone =>
                    \A j \in DOMAIN pr.files :
                        (j > calls[k].file /\ Truthy(pr.files[j].patch)) =>
                            /\ ModelCalls(j) # {}
                            /\ (\E m \in ModelCalls(j) : AsksForComment(calls[m].ret))
                                  => CommentCalls(j) # {}

\* C4 happens: the creation failed for the first and the second file and the
\* third file got its comment
C4_Witness ==
    /\ LoopDone
    /\ Len(pr.files) >= 3
    /\ CommentCalls(1) \subseteq FailedComments /\ CommentCalls(1) # {}
    /\ CommentCalls(2) \subseteq FailedComments /\ CommentCalls(2) # {}
    /\ \E k \in CommentCalls(3) : calls[k].result = "ok"
    /\ Len(posted) = 1

\* C6: in general and issues mode the model is called once, nothing is
\* posted and the head commit is never fetched; the output is one block
\* under the prefix of the mode; comment creation happens in comments mode
\* only.
C6_OnlyCommentsModePosts ==
    /\ args.mode \in {"general", "issues"} =>
          /\ Count("generate_review") <= 1
          /\ Count("create_review_comment") = 0
          /\ Count("get_commit") = 0
          /\ posted = <<>>
          /\ Len(output) <= 1
          /\ pc = "done" =>
                /\ Count("generate_review") = 1
                /\ output = <<Block(IF args.mode = "general" THEN "General PR Review:"
                                                             ELSE "Code Issues:",
                                    review_text)>>
    /\ (Count("create_review_comment") > 0 \/ pc = "post_comment") => args.mode = "comments"

\* C6 happens: a finished issues-mode run on an open pull request whose
\* review reports an issue on a file with a patch
C6_Witness ==
    /\ pc = "done"
    /\ args.mode = "issues"
    /\ pr.state = "open"
    /\ review_text = RespIssue
    /\ \E i \in DOMAIN pr.files : Truthy(pr.files[i].patch)

\* C7: with valid arguments and GITHUB_TOKEN unset or empty the run aborts
\* before any call of the repository gateway, before the model gateway is
\* constructed and before any model call, with nothing printed and nothing
\* posted; the arguments are parsed first, so a bad argument or --version
\* ends the run before the token is read.
C7_MissingTokenAbortsFirst ==
    /\ (Count("getenv") > 0 /\ token \in {None, <<>>}) =>
          /\ pc = "aborted"
          /\ Len(calls) = 1
          /\ llm = FALSE
          /\ output = <<>>
          /\ posted = <<>>
    /\ pc \in {"exit_usage", "exit_version"} => calls = <<>>
    /\ Count("getenv") > 0 => args # NoArgs

\* C7 happens: the token was read and is empty
C7_Witness ==
    /\ pc = "aborted"
    /\ token = <<>>
    /\ Count("getenv") = 1

\* the calls that raised, and the comment creations that succeeded
Raised == {k \in DOMAIN calls : calls[k].result = "raise"}
CreatedIdx == {k \in DOMAIN calls : calls[k].call = "create_review_comment"
                                     /\ calls[k].result = "ok"}
ReviewPrinted == \E k \in DOMAIN calls : calls[k] = Returned("generate_review", 0, review_text)

\* C8: a comment creation is the only call whose failure the run survives:
\* any other call that raises is the last thing the run does.  Nothing is
\* called, printed or posted at or after it, the files after the current one
\* are left alone, and the comments posted before it are still there.
C8_OtherFailuresEndTheRun ==
    /\ \A k \in Raised :
          calls[k].call # "create_review_comment" => (k = Len(calls) /\ pc = "aborted")
    /\ pc = "aborted" =>
          /\ calls # <<>>
          /\ Len(calls) \in Raised
          /\ Last(calls).call # "create_review_comment"
          /\ ~ENABLED Next
          /\ \A k \in DOMAIN calls : calls[k].file <= Last(calls).file
          /\ Len(output) = (IF ReviewPrinted THEN 1 ELSE 0) + Count("create_review_comment")
          /\ Len(posted) = Cardinality(CreatedIdx)
          /\ \A k \in CreatedIdx :
                \E n \in DOMAIN posted : posted[n].path = pr.files[calls[k].file].filename

\* C8 happens: the comment of the first file is posted, the model raises on
\* the second file, and a third file with a patch is never reached
C8_Witness ==
    /\ pc = "aborted"
    /\ Len(pr.files) = 3
    /\ Truthy(pr.files[3].patch)
    /\ Len(posted) = 1
    /\ posted[1].path = pr.files[1].filename
    /\ Last(calls).call = "generate_review"
    /\ Last(calls).file = 2

\* C10: in comments mode on an open pull request the calls are made one
\* after the other in this order: the PR-level review returns and the Code
\* Issues block is printed, then the head commit is fetched, once, then the
\* files are handled in list order, each file's model call returning right
\* before its comment creation; every comment creation is given the commit
\* that was fetched before the loop.
C10_CallsInOrder ==
    CommentsOnOpen =>
        /\ Count("get_commit") <= 1
        /\ \A k \in DOMAIN calls :
              /\ calls[k].call = "get_commit" =>
                    /\ \E m \in 1..(k - 1) : calls[m] = Returned("generate_review", 0, review_text)
                    /\ Len(output) >= 1
                    /\ output[1] = Block("Code Issues:", review_text)
              /\ k \in LoopCalls =>
                    \E m \in 1..(k - 1) : calls[m].call = "get_commit" /\ calls[m].result = "ok"
              /\ calls[k].call = "create_review_comment" =>
                    /\ k > 1
                    /\ calls[k - 1].call = "generate_review"
                    /\ calls[k - 1].file = calls[k].file
                    /\ calls[k - 1].result = "ok"
                    /\ calls[k].commit = head_commit
                    /\ calls[k].commit = [sha |-> pr.head_sha, fetch |-> 1]
        /\ \A k, m \in LoopCalls : k < m => calls[k].file <= calls[m].file
        /\ \A n \in DOMAIN posted : posted[n].commit = head_commit

\* C10 happens: a finished loop in which the second and the third file got
\* their comments
C10_Witness ==
    /\ LoopDone
    /\ \E k \in CommentCalls(2) : calls[k].result = "ok"
    /\ \E k \in CommentCalls(3) : calls[k].result = "ok"

=============================================================================
